---- MODULE Spec2Model ----
(***************************************************************************)
(* Model of olsztyn_geoportal.py: the layer selection dialog               *)
(* (OlsztynGeoportalDialog) and the plugin shell (OlsztynGeoportal).       *)
(*                                                                         *)
(* Strings are sequences of tokens, so that joining, formatting and        *)
(* splitting are computed rather than assumed.  Polish diacritics of the   *)
(* source's literals are written in ASCII.                                 *)
(* The host (QGIS) is represented by the state it exposes: the project     *)
(* CRS and layer registry, the map canvas, the web menu and the toolbars.  *)
(* Every host call made by a handler is recorded, in order, in the log of  *)
(* that handler.                                                           *)
(***************************************************************************)
EXTENDS Integers, Sequences, FiniteSets, TLC

\* ---------------------------------------------------------------- bounds
\* layers the project may hold before confirms stop being explored
MaxLayers == 2
\* actions registered through add_action / initGui
MaxActions == 2
\* confirms issued in one dialog session
MaxConfirms == 2

\* --------------------------------------------------------------- strings
Digits == <<"0", "1", "2", "3", "4", "5", "6", "7", "8", "9">>

\* value of one decimal digit character
DigitVal(c) == (CHOOSE i \in 1..10 : Digits[i] = c) - 1

\* str.split(sep) on a sequence of characters
RECURSIVE SplitFrom(_, _, _, _, _)
SplitFrom(s, sep, i, cur, acc) ==
    IF i > Len(s) THEN Append(acc, cur)
    ELSE IF s[i] = sep THEN SplitFrom(s, sep, i + 1, <<>>, Append(acc, cur))
    ELSE SplitFrom(s, sep, i + 1, Append(cur, s[i]), acc)

split(s, sep) == SplitFrom(s, sep, 1, <<>>, <<>>)

\* float() of a sequence of decimal digits
RECURSIVE float(_)
float(cs) ==
    IF cs = <<>> THEN 0
    ELSE float(SubSeq(cs, 1, Len(cs) - 1)) * 10 + DigitVal(cs[Len(cs)])

\* decimal formatting of a natural number inside an f-string
RECURSIVE str(_)
str(n) ==
    IF n < 10 THEN <<Digits[n + 1]>>
    ELSE str(n \div 10) \o <<Digits[(n % 10) + 1]>>

\* sep.join(parts), every part a sequence of tokens
RECURSIVE join(_, _)
join(sep, parts) ==
    IF parts = <<>> THEN <<>>
    ELSE IF Len(parts) = 1 THEN parts[1]
    ELSE parts[1] \o <<sep>> \o join(sep, Tail(parts))

\* ------------------------------------------------------- dialog constants
olsztyn_bbox ==
    <<"2", "2", "7", "2", "0", "0", "0", ",",
      "7", "1", "2", "9", "0", "0", "0", ",",
      "2", "2", "8", "8", "0", "0", "0", ",",
      "7", "1", "4", "5", "0", "0", "0">>

layers ==
    ("Standardowa mapa OSM" :>
        [type |-> "xyz", url |-> "https://tile.openstreetmap.org/{z}/{x}/{y}.png",
         zmin |-> 0, zmax |-> 19, crs |-> "EPSG:3857",
         info |-> "Standardowa mapa OpenStreetMap z pelnymi detalami"])
    @@ ("OpenTopoMap (topograficzna)" :>
        [type |-> "xyz", url |-> "https://a.tile.opentopomap.org/{z}/{x}/{y}.png",
         zmin |-> 0, zmax |-> 17, crs |-> "EPSG:3857",
         info |-> "Mapa topograficzna ze szlakiami i warstwicami"])
    @@ ("CyclOSM (dla rowerzystow)" :>
        [type |-> "xyz",
         url |-> "https://a.tile-cyclosm.openstreetmap.fr/cyclosm/{z}/{x}/{y}.png",
         zmin |-> 0, zmax |-> 20, crs |-> "EPSG:3857",
         info |-> "Mapa z wyroznionymi sciezkami rowerowymi"])
    @@ ("Humanitarian (humanitarna)" :>
        [type |-> "xyz", url |-> "https://a.tile.openstreetmap.fr/hot/{z}/{x}/{y}.png",
         zmin |-> 0, zmax |-> 20, crs |-> "EPSG:3857",
         info |-> "Mapa humanitarna z wyroznionymi budynkami"])
    @@ ("Transport" :>
        [type |-> "xyz", url |-> "https://tile.memomaps.de/tilegen/{z}/{x}/{y}.png",
         zmin |-> 0, zmax |-> 18, crs |-> "EPSG:3857",
         info |-> "Mapa komunikacji publicznej i transportu"])

\* texts layer_combo.currentText() can return: the catalog names, the empty
\* text of a combo box without a current item, and a name outside the catalog
ComboTexts == DOMAIN layers \cup {"", "Nieznana warstwa"}

\* self.layers.get(selected_layer)
LookupLayer(selected_layer) ==
    IF selected_layer \in DOMAIN layers
    THEN [found |-> TRUE, info |-> layers[selected_layer]]
    ELSE [found |-> FALSE, info |-> [type |-> "", url |-> "", zmin |-> 0,
                                     zmax |-> 0, crs |-> "", info |-> ""]]

\* ------------------------------------------------------------ host values
\* project CRS values: invalid, valid without authority id, two EPSG codes
ProjectCrsValues ==
    { [valid |-> FALSE, authid |-> ""],
      [valid |-> TRUE, authid |-> ""],
      [valid |-> TRUE, authid |-> "EPSG:4326"],
      [valid |-> TRUE, authid |-> "EPSG:3857"] }

\* QgsCoordinateReferenceSystem(authid)
QgsCoordinateReferenceSystem(authid) == [valid |-> TRUE, authid |-> authid]

Min(a, b) == IF a <= b THEN a ELSE b
Max(a, b) == IF a >= b THEN a ELSE b

\* QgsRectangle(xMin, yMin, xMax, yMax), normalised by the host
QgsRectangle(x1, y1, x2, y2) ==
    [xMin |-> Min(x1, x2), yMin |-> Min(y1, y2),
     xMax |-> Max(x1, x2), yMax |-> Max(y1, y2)]

\* layer.error(): no error object, or an error with a message
HostErrors == {"<none>", "Cannot connect to tile server"}

Call(op, args) == [op |-> op, args |-> args]

\* ------------------------------------------------ download_layer, in parts
NotSelectedWarning ==
    Call("QMessageBox.warning", <<"Blad", <<"Nie wybrano warstwy.">>>>)

\* mutation: the return after the warning is missing, the try block fails
\* on the absent definition and its handlers run
NotSelected_noReturn ==
    <<NotSelectedWarning,
      Call("progress_bar.setVisible", <<TRUE>>),
      Call("progress_bar.setRange", <<0, 0>>),
      Call("QMessageBox.critical",
           <<"Blad", <<"Wystapil nieoczekiwany blad:\n", "str(e)">>>>),
      Call("progress_bar.setVisible", <<FALSE>>)>>

\* if not layer_info: warn and return
NotSelected == <<NotSelectedWarning>>

\* mutation: the zoom bounds change places
url_parts_swapped(layer_info) ==
    << <<"type=xyz">>,
       <<"url=", layer_info.url>>,
       <<"zmin=">> \o str(layer_info.zmax),
       <<"zmax=">> \o str(layer_info.zmin),
       <<"crs=", layer_info.crs>> >>

\* url_parts and "&".join(url_parts)
url_parts(layer_info) ==
    << <<"type=xyz">>,
       <<"url=", layer_info.url>>,
       <<"zmin=">> \o str(layer_info.zmin),
       <<"zmax=">> \o str(layer_info.zmax),
       <<"crs=", layer_info.crs>> >>

url(layer_info) == join("&", url_parts(layer_info))

\* mutation: the empty authority id is not looked at
CrsUnset_validOnly(crs) == ~crs.valid

\* project.crs() is unset: not isValid() or authid() == ''
CrsUnset(crs) == (~crs.valid) \/ crs.authid = ""

\* the project-CRS step of the valid branch
CrsStep(crs) ==
    <<Call("project.crs", <<>>)>>
    \o (IF CrsUnset(crs)
        THEN <<Call("project.setCrs", <<QgsCoordinateReferenceSystem("EPSG:3857")>>),
               Call("QMessageBox.information",
                    <<"Informacja",
                      <<"Ustawiono CRS projektu na EPSG:3857 (Web Mercator)">>>>)>>
        ELSE <<>>)

\* the extent built from olsztyn_bbox
bbox_coords == split(olsztyn_bbox, ",")

\* mutation: the coordinates are read as x, x, y, y
extent_xxyy ==
    QgsRectangle(float(bbox_coords[1]), float(bbox_coords[3]),
                 float(bbox_coords[2]), float(bbox_coords[4]))

extent ==
    QgsRectangle(float(bbox_coords[1]), float(bbox_coords[2]),
                 float(bbox_coords[3]), float(bbox_coords[4]))

\* the map-view step of the valid branch
ViewStep(hasIface) ==
    IF hasIface
    THEN <<Call("iface.mapCanvas", <<>>)>>
         \o (IF Len(bbox_coords) = 4
             THEN <<Call("canvas.setDestinationCrs",
                         <<QgsCoordinateReferenceSystem("EPSG:3857")>>),
                    Call("canvas.setExtent", <<extent>>),
                    Call("canvas.refresh", <<>>),
                    Call("canvas.zoomToFeatureExtent", <<extent>>)>>
             ELSE <<>>)
    ELSE <<>>

info_text(layer_info) == <<"\n\n(i) ", layer_info.info>>

SuccessNotice(selected_layer, layer_info) ==
    Call("QMessageBox.information",
         <<"Sukces",
           <<"Warstwa '", selected_layer,
             "' zostala pomyslnie dodana do projektu.\n\n",
             "CRS warstwy: ", layer_info.crs>>
           \o info_text(layer_info)
           \o <<"\n\nWidok ustawiony na obszar Olsztyna.">>>>)

\* mutation: the view is set before the layer is registered
ValidBranch_viewFirst(selected_layer, layer_info, crs, hasIface) ==
    CrsStep(crs)
    \o ViewStep(hasIface)
    \o <<Call("project.addMapLayer", <<selected_layer>>)>>
    \o <<SuccessNotice(selected_layer, layer_info), Call("accept", <<>>)>>

\* mutation: the dialog is not closed after the success notice
ValidBranch_noAccept(selected_layer, layer_info, crs, hasIface) ==
    CrsStep(crs)
    \o <<Call("project.addMapLayer", <<selected_layer>>)>>
    \o ViewStep(hasIface)
    \o <<SuccessNotice(selected_layer, layer_info)>>

\* the branch taken when layer.isValid()
ValidBranch(selected_layer, layer_info, crs, hasIface) ==
    CrsStep(crs)
    \o <<Call("project.addMapLayer", <<selected_layer>>)>>
    \o ViewStep(hasIface)
    \o <<SuccessNotice(selected_layer, layer_info), Call("accept", <<>>)>>

\* layer.error().message() if layer.error() else "Nieznany blad"
error_msg(hostError) ==
    IF hostError = "<none>" THEN "Nieznany blad" ELSE hostError

\* mutation: the warning leaves out the detail and the URL
LoadFailedWarning_bare(selected_layer, layer_info, hostError) ==
    Call("QMessageBox.warning",
         <<"Blad ladowania warstwy",
           <<"Nie udalo sie zaladowac warstwy '", selected_layer, "'.">>>>)

\* the warning of the invalid branch
LoadFailedWarning(selected_layer, layer_info, hostError) ==
    Call("QMessageBox.warning",
         <<"Blad ladowania warstwy",
           <<"Nie udalo sie zaladowac warstwy '", selected_layer, "'.\n\n",
             "Mozliwe przyczyny:\n",
             "- Brak polaczenia z internetem\n",
             "- Serwer kafelkow tymczasowo niedostepny\n",
             "- Bledny URL serwisu\n\n",
             "Szczegoly: ", error_msg(hostError), "\n\n",
             "URL: ", layer_info.url>>>>)

\* mutation: the invalid layer is registered all the same
InvalidBranch_registers(selected_layer, layer_info, hostError) ==
    <<Call("layer.error", <<>>),
      LoadFailedWarning(selected_layer, layer_info, hostError),
      Call("project.addMapLayer", <<selected_layer>>)>>

\* the branch taken when the layer is not valid
InvalidBranch(selected_layer, layer_info, hostError) ==
    <<Call("layer.error", <<>>),
      LoadFailedWarning(selected_layer, layer_info, hostError)>>

\* the body of the try block, as the calls it makes when none raises
TryBody(selected_layer, layer_info, layerValid, hostError, crs, hasIface) ==
    IF layer_info.type = "xyz"
    THEN <<Call("QgsRasterLayer", <<url(layer_info), selected_layer, "wms">>),
           Call("layer.isValid", <<>>)>>
         \o (IF layerValid
             THEN ValidBranch(selected_layer, layer_info, crs, hasIface)
             ELSE InvalidBranch(selected_layer, layer_info, hostError))
    ELSE <<>>

\* longest try body: the valid branch with the project CRS unset
MaxHostCalls ==
    Len(TryBody("Transport", layers["Transport"], TRUE, "<none>",
                [valid |-> FALSE, authid |-> ""], TRUE))

\* the try block when its raiseAt-th call raises (0: none does): the calls
\* made, and how many of them returned
Attempt(body, raiseAt) ==
    IF raiseAt \in 1..Len(body)
    THEN [calls |-> SubSeq(body, 1, raiseAt), returned |-> raiseAt - 1,
          raised |-> TRUE]
    ELSE [calls |-> body, returned |-> Len(body), raised |-> FALSE]

\* except Exception as e: the exception is consumed and reported
ExceptHandler(raised) ==
    IF raised
    THEN [calls |-> <<Call("QMessageBox.critical",
                           <<"Blad", <<"Wystapil nieoczekiwany blad:\n", "str(e)">>>>)>>,
          propagated |-> FALSE]
    ELSE [calls |-> <<>>, propagated |-> FALSE]

\* mutation: the progress bar is left visible
Finally_none == <<>>

\* finally: self.progress_bar.setVisible(False)
Finally == <<Call("progress_bar.setVisible", <<FALSE>>)>>

\* download_layer as a whole: log is every call made, effective the calls
\* that returned and so took effect in the host
download_layer(selected_layer, layerValid, hostError, raiseAt, crs, hasIface) ==
    LET looked == LookupLayer(selected_layer)
    IN  IF ~looked.found
        THEN [log |-> NotSelected, effective |-> NotSelected,
              raised |-> FALSE, propagated |-> FALSE]
        ELSE LET before == <<Call("progress_bar.setVisible", <<TRUE>>),
                             Call("progress_bar.setRange", <<0, 0>>)>>
                 att == Attempt(TryBody(selected_layer, looked.info, layerValid,
                                        hostError, crs, hasIface), raiseAt)
                 exc == ExceptHandler(att.raised)
             IN  [log |-> before \o att.calls \o exc.calls \o Finally,
                  effective |-> before \o SubSeq(att.calls, 1, att.returned)
                                \o exc.calls \o Finally,
                  raised |-> att.raised, propagated |-> exc.propagated]

\* ------------------------------------------------- effect of a host call
\* st: [crs, layers, canvasCrs, view, result, progress]
Apply(st, c) ==
    CASE c.op = "project.setCrs" -> [st EXCEPT !.crs = c.args[1]]
      [] c.op = "project.addMapLayer" ->
            [st EXCEPT !.layers = st.layers + 1]
      [] c.op = "canvas.setDestinationCrs" -> [st EXCEPT !.canvasCrs = c.args[1]]
      [] c.op = "canvas.setExtent" ->
            [st EXCEPT !.view = [by |-> "setExtent", rect |-> c.args[1]]]
      [] c.op = "canvas.zoomToFeatureExtent" ->
            [st EXCEPT !.view = [by |-> "zoomToFeatureExtent", rect |-> c.args[1]]]
      [] c.op = "accept" -> [st EXCEPT !.result = "accepted"]
      [] c.op = "progress_bar.setVisible" -> [st EXCEPT !.progress = c.args[1]]
      [] OTHER -> st

RECURSIVE Run(_, _)
Run(st, calls) ==
    IF calls = <<>> THEN st ELSE Run(Apply(st, Head(calls)), Tail(calls))

\* ------------------------------------------------------------------ state
VARIABLES
    projectCrs,         \* QgsProject.instance().crs()
    projectLayers,      \* number of layers registered with the project
    canvasCrs,          \* destination CRS of the map canvas
    mapView,            \* the call that last set the canvas extent, and its rectangle
    iface,              \* self.iface is set (the host passes its interface)
    dlg,                \* "none", "open" (inside exec_), "accepted"
    progressVisible,    \* self.progress_bar.isVisible()
    confirms,           \* download_layer calls in this dialog session
    sessionAdds,        \* layers registered by this dialog session
    last,               \* the last download_layer call: inputs, calls, state before
    plugin,             \* "constructed", "gui", "unloaded"
    actions,            \* self.actions
    toolbar,            \* self.toolbar: "held" or "released"
    toolbarActions,     \* actions added to the plugin's own toolbar
    webMenu,            \* actions in the host's web menu under self.menu
    pluginToolBarIcons  \* actions in the host's shared plugin toolbar

vars == <<projectCrs, projectLayers, canvasCrs, mapView, iface, dlg,
          progressVisible, confirms, sessionAdds, last, plugin, actions,
          toolbar, toolbarActions, webMenu, pluginToolBarIcons>>

dialogVars == <<dlg, progressVisible, confirms, sessionAdds, last>>
hostVars == <<projectCrs, projectLayers, canvasCrs, mapView>>
shellVars == <<plugin, actions, toolbar, toolbarActions, webMenu, pluginToolBarIcons>>

HostState ==
    [crs |-> projectCrs, layers |-> projectLayers, canvasCrs |-> canvasCrs,
     view |-> mapView, result |-> dlg, progress |-> progressVisible]

\* the host's project and canvas, as recorded before a confirm
HostPart ==
    [crs |-> projectCrs, layers |-> projectLayers, canvasCrs |-> canvasCrs,
     view |-> mapView]

NoConfirm ==
    [kind |-> "none", sel |-> "", valid |-> FALSE, hostError |-> "<none>",
     log |-> <<>>, raised |-> FALSE, propagated |-> FALSE]

InitialView == [by |-> "host", rect |-> QgsRectangle(0, 0, 1, 1)]

\* OlsztynGeoportal.__init__ has run in a host with some project
Init ==
    /\ projectCrs \in ProjectCrsValues
    /\ projectLayers = 0
    /\ canvasCrs = projectCrs
    /\ mapView = InitialView
    /\ iface = TRUE
    /\ dlg = "none"
    /\ progressVisible = FALSE
    /\ confirms = 0
    /\ sessionAdds = 0
    /\ last = NoConfirm @@ [pre |-> HostPart]
    /\ plugin = "constructed"
    /\ actions = <<>>
    /\ toolbar = "held"
    /\ toolbarActions = {}
    /\ webMenu = {}
    /\ pluginToolBarIcons = {}

\* ----------------------------------------------------------- plugin shell
Range(f) == {f[i] : i \in DOMAIN f}

\* add_action(icon_path, text, callback=self.run, add_to_menu, add_to_toolbar)
add_action(add_to_menu, add_to_toolbar) ==
    LET action == Len(actions) + 1
    IN  /\ toolbarActions' = IF add_to_toolbar THEN toolbarActions \cup {action}
                             ELSE toolbarActions
        /\ webMenu' = IF add_to_menu THEN webMenu \cup {action} ELSE webMenu
        /\ actions' = Append(actions, action)

AddAction ==
    /\ plugin # "unloaded"
    /\ dlg = "none"
    /\ Len(actions) < MaxActions
    /\ \E add_to_menu \in BOOLEAN, add_to_toolbar \in BOOLEAN :
          add_action(add_to_menu, add_to_toolbar)
    /\ UNCHANGED <<plugin, toolbar, pluginToolBarIcons, iface>>
    /\ UNCHANGED dialogVars
    /\ UNCHANGED hostVars

initGui ==
    /\ plugin = "constructed"
    /\ dlg = "none"
    /\ Len(actions) < MaxActions
    /\ add_action(TRUE, TRUE)
    /\ plugin' = "gui"
    /\ UNCHANGED <<toolbar, pluginToolBarIcons, iface>>
    /\ UNCHANGED dialogVars
    /\ UNCHANGED hostVars

\* mutation: only the first action is removed from the menu
RemoveFromWebMenu_first(menu, acts) ==
    IF acts = <<>> THEN menu ELSE menu \ {acts[1]}

\* the loop of unload over self.actions: iface.removePluginWebMenu
RemoveFromWebMenu(menu, acts) == menu \ Range(acts)

\* the loop of unload over self.actions: iface.removeToolBarIcon
RemoveToolBarIcons(icons, acts) == icons \ Range(acts)

\* del self.toolbar: the plugin's reference owns the toolbar returned by
\* iface.addToolBar, dropping it releases the toolbar
DelToolbar(tb) == "released"

unload ==
    /\ plugin # "unloaded"
    /\ dlg = "none"
    /\ webMenu' = RemoveFromWebMenu(webMenu, actions)
    /\ pluginToolBarIcons' = RemoveToolBarIcons(pluginToolBarIcons, actions)
    /\ toolbar' = DelToolbar(toolbar)
    /\ plugin' = "unloaded"
    /\ UNCHANGED <<actions, toolbarActions, iface>>
    /\ UNCHANGED dialogVars
    /\ UNCHANGED hostVars

\* entries the host shows in the plugin's own toolbar
ToolbarEntries == IF toolbar = "held" THEN toolbarActions ELSE {}

\* run(): an action of the plugin is triggered; the dialog is constructed
\* and exec_() starts
run ==
    /\ plugin # "unloaded"
    /\ dlg = "none"
    /\ \E a \in Range(actions) : a \in ToolbarEntries \cup webMenu
    /\ dlg' = "open"
    /\ progressVisible' = FALSE
    /\ confirms' = 0
    /\ sessionAdds' = 0
    /\ last' = NoConfirm @@ [pre |-> HostPart]
    /\ UNCHANGED <<iface>>
    /\ UNCHANGED shellVars
    /\ UNCHANGED hostVars

\* ----------------------------------------------------------------- dialog
\* the host's answers are enumerated once per run of the handler: a value
\* the handler does not read (the validity of a layer that is not built, the
\* error of a valid layer, a raise past the last call) is held at its default
InputRead(selected_layer, layerValid, hostError, raiseAt) ==
    IF selected_layer \in DOMAIN layers
    THEN /\ layerValid => hostError = "<none>"
         /\ raiseAt <= Len(TryBody(selected_layer, layers[selected_layer], layerValid,
                                   hostError, projectCrs, iface))
    ELSE ~layerValid /\ hostError = "<none>" /\ raiseAt = 0

\* the download button is clicked: download_layer runs to its end
Confirm ==
    /\ dlg = "open"
    /\ confirms < MaxConfirms
    /\ projectLayers < MaxLayers
    /\ \E selected_layer \in ComboTexts, layerValid \in BOOLEAN,
          hostError \in HostErrors, raiseAt \in 0..MaxHostCalls :
          /\ InputRead(selected_layer, layerValid, hostError, raiseAt)
          /\ \E r \in {download_layer(selected_layer, layerValid, hostError, raiseAt,
                                      projectCrs, iface)} :
             \E st \in {Run(HostState, r.effective)} :
              /\ projectCrs' = st.crs
              /\ projectLayers' = st.layers
              /\ canvasCrs' = st.canvasCrs
              /\ mapView' = st.view
              /\ dlg' = st.result
              /\ progressVisible' = st.progress
              /\ sessionAdds' = sessionAdds + (st.layers - projectLayers)
              /\ last' = [kind |-> "confirm", sel |-> selected_layer,
                          valid |-> layerValid, hostError |-> hostError,
                          log |-> r.log, raised |-> r.raised,
                          propagated |-> r.propagated, pre |-> HostPart]
    /\ confirms' = confirms + 1
    /\ UNCHANGED <<iface>>
    /\ UNCHANGED shellVars

\* the user dismisses the open dialog: exec_() and run() return
Reject ==
    /\ dlg = "open"
    /\ dlg' = "none"
    /\ progressVisible' = FALSE
    /\ confirms' = 0
    /\ sessionAdds' = 0
    /\ last' = NoConfirm @@ [pre |-> HostPart]
    /\ UNCHANGED <<iface>>
    /\ UNCHANGED shellVars
    /\ UNCHANGED hostVars

\* after accept(): exec_() and run() return
ExecReturns ==
    /\ dlg = "accepted"
    /\ dlg' = "none"
    /\ progressVisible' = FALSE
    /\ confirms' = 0
    /\ sessionAdds' = 0
    /\ last' = NoConfirm @@ [pre |-> HostPart]
    /\ UNCHANGED <<iface>>
    /\ UNCHANGED shellVars
    /\ UNCHANGED hostVars

\* the program as the host drives it: initGui registers the one action,
\* the user opens the dialog and confirms or dismisses, unload tears down
Next ==
    \/ initGui
    \/ unload
    \/ run
    \/ Confirm
    \/ Reject
    \/ ExecReturns

Spec == Init /\ [][Next]_vars

\* the plugin shell with add_action called directly, any flags, any number
\* of times; the dialog is opened and dismissed but not confirmed
NextShell ==
    \/ AddAction
    \/ initGui
    \/ unload
    \/ run
    \/ Reject

SpecShell == Init /\ [][NextShell]_vars

\* ============================================================ properties
Count(op) == Cardinality({i \in DOMAIN last.log : last.log[i].op = op})
Has(op) == \E i \in DOMAIN last.log : last.log[i].op = op
Pos(op) == CHOOSE i \in DOMAIN last.log : last.log[i].op = op
HasBox(kind, title) ==
    \E i \in DOMAIN last.log : last.log[i].op = kind /\ last.log[i].args[1] = title
PosBox(kind, title) ==
    CHOOSE i \in DOMAIN last.log : last.log[i].op = kind /\ last.log[i].args[1] = title
BoxOps == {"QMessageBox.warning", "QMessageBox.information", "QMessageBox.critical"}
Boxes == {i \in DOMAIN last.log : last.log[i].op \in BoxOps}
Contains(text, token) == \E i \in DOMAIN text : text[i] = token

IsConfirm == last.kind = "confirm"
Known == last.sel \in DOMAIN layers
\* a confirm whose layer was constructed valid and in which no host call raised
Succeeded == IsConfirm /\ Known /\ last.valid /\ ~last.raised
\* a confirm whose layer came out invalid and in which no host call raised
Failed == IsConfirm /\ Known /\ ~last.valid /\ ~last.raised
\* unset as the claims word it: invalid, or an empty authority id
UnsetBefore == last.pre.crs.valid = FALSE \/ last.pre.crs.authid = ""
FreshDialog == dlg = "open" /\ progressVisible = FALSE

\* C1: a confirm whose constructed layer is invalid registers no layer with
\* the project, whatever the catalog name, the prior project state and the
\* host call that may raise
C1_FailedNeverRegisters ==
    (IsConfirm /\ Known /\ ~last.valid)
        => /\ ~Has("project.addMapLayer")
           /\ projectLayers = last.pre.layers

C1_Witness ==
    /\ Failed
    /\ Has("QgsRasterLayer")
    /\ Has("layer.error")
    /\ last.sel = "Transport"

\* C2: a confirm with a name that is not a key of the catalog shows one
\* warning and does nothing else: no constructor call, no layer registered,
\* project CRS and map view unchanged, dialog not closed
C2_UnknownNameOnlyWarns ==
    (IsConfirm /\ ~Known)
        => /\ Len(last.log) = 1
           /\ last.log[1].op = "QMessageBox.warning"
           /\ ~Has("QgsRasterLayer")
           /\ ~Has("project.addMapLayer")
           /\ HostPart = last.pre
           /\ FreshDialog

C2_Witness ==
    /\ IsConfirm
    /\ last.sel = "Nieznana warstwa"
    /\ Boxes = {1}

\* C3: on a confirm whose layer is valid and whose project-CRS step returns
\* normally: if the project CRS was unset before, exactly one setCrs call is
\* made, its argument is the CRS of the selected definition, the project CRS
\* is that CRS afterwards and the user is told; if it was set, no setCrs
\* call is made and the project CRS is unchanged
C3_CrsSetOnceIffUnset ==
    (IsConfirm /\ Known /\ last.valid /\ Has("project.addMapLayer"))
        => IF UnsetBefore
           THEN /\ Count("project.setCrs") = 1
                /\ last.log[Pos("project.setCrs")].args[1]
                      = [valid |-> TRUE, authid |-> layers[last.sel].crs]
                /\ projectCrs = [valid |-> TRUE, authid |-> layers[last.sel].crs]
                /\ HasBox("QMessageBox.information", "Informacja")
                /\ Pos("project.setCrs") < PosBox("QMessageBox.information", "Informacja")
           ELSE /\ Count("project.setCrs") = 0
                /\ projectCrs = last.pre.crs
                /\ ~HasBox("QMessageBox.information", "Informacja")

C3_Witness ==
    /\ Succeeded
    /\ last.pre.crs = [valid |-> TRUE, authid |-> ""]
    /\ Count("project.setCrs") = 1

\* C4 as stated: on a successful confirm the layer is registered first, then
\* the unset project CRS is set and notified, then the view is set and
\* redrawn, then the success notice, then accept; registering, view, notice
\* and accept happen on every successful confirm
C4_Original ==
    Succeeded
        => /\ Count("project.addMapLayer") = 1
           /\ Count("canvas.setExtent") = 1
           /\ Count("canvas.refresh") = 1
           /\ HasBox("QMessageBox.information", "Sukces")
           /\ Count("accept") = 1
           /\ UnsetBefore
                => /\ Has("project.setCrs")
                   /\ Pos("project.addMapLayer") < Pos("project.setCrs")
                   /\ Pos("project.setCrs") < Pos("canvas.setDestinationCrs")
           /\ Pos("project.addMapLayer") < Pos("canvas.setDestinationCrs")
           /\ Pos("canvas.setDestinationCrs") < Pos("canvas.setExtent")
           /\ Pos("canvas.setExtent") < Pos("canvas.refresh")
           /\ Pos("canvas.refresh") < PosBox("QMessageBox.information", "Sukces")
           /\ PosBox("QMessageBox.information", "Sukces") < Pos("accept")

\* C4 amended: on a successful confirm the unset project CRS is set and
\* notified first, then the layer is registered, then the canvas CRS and the
\* extent are set, a redraw is requested and the canvas is zoomed to the
\* extent, then the success notice is shown, then the dialog is accepted;
\* registering, view, notice and accept happen on every successful confirm
C4_OrderCrsThenRegister ==
    Succeeded
        => /\ Count("project.addMapLayer") = 1
           /\ Count("canvas.setDestinationCrs") = 1
           /\ Count("canvas.setExtent") = 1
           /\ Count("canvas.refresh") = 1
           /\ Count("canvas.zoomToFeatureExtent") = 1
           /\ HasBox("QMessageBox.information", "Sukces")
           /\ Count("accept") = 1
           /\ UnsetBefore
                => /\ Has("project.setCrs")
                   /\ Pos("project.setCrs")
                        < PosBox("QMessageBox.information", "Informacja")
                   /\ PosBox("QMessageBox.information", "Informacja")
                        < Pos("project.addMapLayer")
           /\ Pos("project.addMapLayer") < Pos("canvas.setDestinationCrs")
           /\ Pos("canvas.setDestinationCrs") < Pos("canvas.setExtent")
           /\ Pos("canvas.setExtent") < Pos("canvas.refresh")
           /\ Pos("canvas.refresh") < Pos("canvas.zoomToFeatureExtent")
           /\ Pos("canvas.zoomToFeatureExtent")
                < PosBox("QMessageBox.information", "Sukces")
           /\ PosBox("QMessageBox.information", "Sukces") < Pos("accept")
           /\ canvasCrs = [valid |-> TRUE, authid |-> layers[last.sel].crs]
           /\ dlg = "accepted"

C4_Witness ==
    /\ Succeeded
    /\ UnsetBefore
    /\ Has("project.setCrs")
    /\ dlg = "accepted"

ViewExtentOps == {"canvas.setExtent", "canvas.zoomToFeatureExtent"}
ViewExtentCalls == {i \in DOMAIN last.log : last.log[i].op \in ViewExtentOps}
FixedExtent ==
    [xMin |-> 2272000, yMin |-> 7129000, xMax |-> 2288000, yMax |-> 7145000]

\* C5 as stated: a confirm with a catalog name and a valid layer makes
\* exactly one addMapLayer call and exactly one call that sets the view
\* extent, whose argument is the fixed extent
C5_Original ==
    Succeeded
        => /\ Count("project.addMapLayer") = 1
           /\ Cardinality(ViewExtentCalls) = 1
           /\ \A i \in ViewExtentCalls : last.log[i].args[1] = FixedExtent

\* C5 amended: such a confirm makes exactly one addMapLayer call, exactly
\* one setExtent call and, after it, exactly one zoomToFeatureExtent call;
\* the argument of both is the fixed extent (west 2272000, south 7129000,
\* east 2288000, north 7145000)
C5_OneAddTwoExtentCalls ==
    Succeeded
        => /\ Count("project.addMapLayer") = 1
           /\ last.log[Pos("project.addMapLayer")].args[1] = last.sel
           /\ Count("canvas.setExtent") = 1
           /\ Count("canvas.zoomToFeatureExtent") = 1
           /\ Pos("canvas.setExtent") < Pos("canvas.zoomToFeatureExtent")
           /\ \A i \in ViewExtentCalls : last.log[i].args[1] = FixedExtent
           /\ mapView.rect = FixedExtent
           /\ FixedExtent.xMin < FixedExtent.xMax
           /\ FixedExtent.yMin < FixedExtent.yMax

C5_Witness ==
    /\ Succeeded
    /\ last.sel = "Standardowa mapa OSM"
    /\ Cardinality(ViewExtentCalls) = 2

\* C6: when the layer comes out invalid, the confirm constructs the layer
\* once, shows exactly one message, a warning holding the host's error
\* detail and the URL of the definition, registers nothing and leaves the
\* dialog open in the state of a freshly opened dialog
C6_FailureReportedOnce ==
    Failed
        => /\ Count("QgsRasterLayer") = 1
           /\ Cardinality(Boxes) = 1
           /\ \A i \in Boxes :
                /\ last.log[i].op = "QMessageBox.warning"
                /\ Contains(last.log[i].args[2], layers[last.sel].url)
                /\ last.hostError # "<none>"
                     => Contains(last.log[i].args[2], last.hostError)
           /\ ~Has("accept")
           /\ FreshDialog

C6_Witness ==
    /\ Failed
    /\ last.hostError = "Cannot connect to tile server"
    /\ confirms = 2

\* C7: when a host call inside the try block raises, the exception does not
\* leave download_layer, exactly one generic error box is shown, the dialog
\* is not closed and the progress bar is hidden again, so the dialog is in
\* the state of a freshly opened one for the next confirm
C7_ExceptionContained ==
    (IsConfirm /\ last.raised)
        => /\ ~last.propagated
           /\ Count("QMessageBox.critical") = 1
           /\ HasBox("QMessageBox.critical", "Blad")
           /\ last.log[Len(last.log)] = [op |-> "progress_bar.setVisible",
                                         args |-> <<FALSE>>]
           /\ FreshDialog

C7_Witness ==
    /\ IsConfirm
    /\ last.raised
    /\ Has("project.addMapLayer")
    /\ Has("QMessageBox.critical")
    /\ confirms = 2

ExpectedUri ==
    ("Standardowa mapa OSM" :>
        <<"type=xyz", "&", "url=", "https://tile.openstreetmap.org/{z}/{x}/{y}.png",
          "&", "zmin=", "0", "&", "zmax=", "1", "9", "&", "crs=", "EPSG:3857">>)
    @@ ("OpenTopoMap (topograficzna)" :>
        <<"type=xyz", "&", "url=", "https://a.tile.opentopomap.org/{z}/{x}/{y}.png",
          "&", "zmin=", "0", "&", "zmax=", "1", "7", "&", "crs=", "EPSG:3857">>)
    @@ ("CyclOSM (dla rowerzystow)" :>
        <<"type=xyz", "&", "url=",
          "https://a.tile-cyclosm.openstreetmap.fr/cyclosm/{z}/{x}/{y}.png",
          "&", "zmin=", "0", "&", "zmax=", "2", "0", "&", "crs=", "EPSG:3857">>)
    @@ ("Humanitarian (humanitarna)" :>
        <<"type=xyz", "&", "url=", "https://a.tile.openstreetmap.fr/hot/{z}/{x}/{y}.png",
          "&", "zmin=", "0", "&", "zmax=", "2", "0", "&", "crs=", "EPSG:3857">>)
    @@ ("Transport" :>
        <<"type=xyz", "&", "url=", "https://tile.memomaps.de/tilegen/{z}/{x}/{y}.png",
          "&", "zmin=", "0", "&", "zmax=", "1", "8", "&", "crs=", "EPSG:3857">>)

\* C9: the connection string handed to the raster-layer constructor is
\* type=xyz, url, zmin, zmax, crs of the selected definition, in that order,
\* joined by '&'
C9_ConnectionString ==
    (IsConfirm /\ Known)
        => /\ Count("QgsRasterLayer") = 1
           /\ last.log[Pos("QgsRasterLayer")].args
                = <<ExpectedUri[last.sel], last.sel, "wms">>

C9_Witness ==
    /\ IsConfirm
    /\ last.sel = "CyclOSM (dla rowerzystow)"
    /\ Has("QgsRasterLayer")

\* C10 as stated: in a dialog session the dialog has been accepted exactly
\* when a confirm of the session registered a layer; a confirm that ends
\* with the dialog open registered nothing and changed neither the project
\* CRS nor the map view; at most one layer is registered per session
C10_Original ==
    dlg \in {"open", "accepted"}
        => /\ (dlg = "accepted") <=> (sessionAdds >= 1)
           /\ (IsConfirm /\ dlg = "open") => HostPart = last.pre
           /\ sessionAdds <= 1

\* C10 amended: the dialog is accepted only by a confirm that registered a
\* layer and in which no host call raised; a confirm that ends with the
\* dialog open and in which no host call raised registered nothing and
\* changed neither the project CRS nor the map view; a confirm registers at
\* most one layer; a confirm that ends with the dialog open after changing
\* the project is one in which a host call raised after the change
C10_AcceptedOnlyAfterRegister ==
    /\ dlg = "accepted"
         => /\ IsConfirm /\ ~last.raised
            /\ projectLayers = last.pre.layers + 1
            /\ sessionAdds >= 1
    /\ (IsConfirm /\ dlg = "open" /\ ~last.raised) => HostPart = last.pre
    /\ IsConfirm => projectLayers - last.pre.layers \in {0, 1}
    /\ (IsConfirm /\ dlg = "open" /\ HostPart # last.pre)
         => /\ last.raised
            /\ Has("project.setCrs") \/ Has("project.addMapLayer")

C10_Witness ==
    /\ dlg = "accepted"
    /\ confirms = 2
    /\ sessionAdds = 1

====
